---- MODULE Spec2Model ----
(***************************************************************************)
(* Model of the swap_escrow program (programs/swap_escrow/src/lib.rs).     *)
(* One escrow record, the one keyed by the pair (PartyA, PartyB), its four *)
(* instructions initialize / deposit / complete / cancel, the custody of   *)
(* the six NFTs the two parties can declare, and the clock.                *)
(* Every instruction is one transaction: the account constraints of its    *)
(* #[derive(Accounts)] struct are checked first, then the handler runs;    *)
(* a failing transaction is rolled back and changes nothing.  The outcome  *)
(* of any call in any state is given by the operators InitializeErr,       *)
(* DepositErr, CompleteErr and CancelErr.                                  *)
(***************************************************************************)
EXTENDS Integers, FiniteSets, Sequences, TLC

VARIABLES escrow, holder, now, last, hist

vars == <<escrow, holder, now, last, hist>>

----------------------------------------------------------------------------
(* Program constants *)

MaxNftCount == 3
ArrayLen == 3
DefaultTimeout == 86400

(* Bounds of the model *)

MaxCountArg == 4
MaxIndexArg == 3
TickStep == 86400
MaxNow == 172800
MaxInits == 2
ReinitMaxCount == 1

----------------------------------------------------------------------------
(* Identities, mints and token accounts *)

PartyA == "A"
PartyB == "B"
Outsider == "C"
Keys == {PartyA, PartyB, Outsider}

\* Pubkey::default(), the content of a zeroed key field
NoKey == "none"

\* the escrow account's own address, the authority of the vaults
EscrowPda == "escrow"

AssetsA == <<"a0", "a1", "a2">>
AssetsB == <<"b0", "b1", "b2">>
Mints == {AssetsA[i] : i \in 1..3} \cup {AssetsB[i] : i \in 1..3}

Slots == 0..(ArrayLen - 1)

\* a token account: who owns it and which mint it holds
TokenAccounts == [owner : Keys \cup {EscrowPda}, mint : Mints]

\* every NFT has supply 1: an account holds 1 unit iff its owner holds the NFT
TokenAmount(h, acct) == IF h[acct.mint] = acct.owner THEN 1 ELSE 0

\* the NFT a party owns at position nft_index (the mint it declares for that
\* slot); an index past the arrays is tried with the party's last NFT
SideMint(is_initializer, nft_index) ==
    LET j == IF nft_index < ArrayLen THEN nft_index + 1 ELSE ArrayLen
    IN IF is_initializer THEN AssetsA[j] ELSE AssetsB[j]

\* some mint other than m
OtherMint(m) == CHOOSE x \in Mints : x # m

\* some key other than k
OtherKey(k) == CHOOSE x \in Keys : x # k

\* ctx.remaining_accounts of initialize: the initializer's mints, then the taker's
RemainingAccounts(ca, cb) == SubSeq(AssetsA, 1, ca) \o SubSeq(AssetsB, 1, cb)

----------------------------------------------------------------------------
(* The escrow account *)

NoFlags == [i \in Slots |-> FALSE]
NoMints == [i \in Slots |-> NoKey]

\* the account data after data.fill(0) / before init
ZeroEscrow ==
    [ initializer               |-> NoKey,
      taker                     |-> NoKey,
      initializer_nft_count     |-> 0,
      taker_nft_count           |-> 0,
      initializer_nft_mints     |-> NoMints,
      taker_nft_mints           |-> NoMints,
      initializer_nft_deposited |-> NoFlags,
      taker_nft_deposited       |-> NoFlags,
      initializer_nft_collected |-> NoFlags,
      taker_nft_collected       |-> NoFlags,
      initializer_deposited     |-> FALSE,
      taker_deposited           |-> FALSE,
      initializer_collected     |-> FALSE,
      taker_collected           |-> FALSE,
      is_initialized            |-> FALSE,
      created_at                |-> 0,
      timeout_in_seconds        |-> 0 ]

\* the last transaction that succeeded, with its arguments
Call(op, who, isInit, idx) ==
    [op |-> op, who |-> who, is_initializer |-> isInit, nft_index |-> idx]

\* history of the current record: number of records created, and for the
\* latest record its declared counts, the mints released by complete, the
\* number of successful completes and whether it has been dissolved
NoHist == [inits |-> 0, a_count |-> 0, b_count |-> 0,
           released |-> {}, completes |-> 0, dissolved |-> FALSE]

----------------------------------------------------------------------------
(* initialize *)

CountValid_AllowsZero(c) == c <= MaxNftCount

\* "Validate NFT counts (1-3 NFTs per participant)"
CountValid(c) == c > 0 /\ c <= MaxNftCount

InitializeErr_NoInit(e, ca, cb) ==
    IF ~CountValid(ca) THEN "InvalidNftCount"
    ELSE IF ~CountValid(cb) THEN "InvalidNftCount"
    ELSE "Ok"

InitializeErr(e, ca, cb) ==
    \* Initialize accounts: `init` of a PDA that already exists fails
    IF e.is_initialized THEN "AccountAlreadyInUse"
    ELSE IF ~CountValid(ca) THEN "InvalidNftCount"
    ELSE IF ~CountValid(cb) THEN "InvalidNftCount"
    ELSE "Ok"

InitializedEscrow(initializer, taker, ca, cb, remaining, t) ==
    [ ZeroEscrow EXCEPT
        !.initializer = initializer,
        !.taker = taker,
        !.initializer_nft_count = ca,
        !.taker_nft_count = cb,
        !.is_initialized = TRUE,
        !.initializer_deposited = FALSE,
        !.taker_deposited = FALSE,
        !.created_at = t,
        !.timeout_in_seconds = DefaultTimeout,
        !.initializer_nft_mints =
            [i \in Slots |-> IF i < ca THEN remaining[i + 1] ELSE NoKey],
        !.taker_nft_mints =
            [i \in Slots |-> IF i < cb THEN remaining[ca + i + 1] ELSE NoKey] ]

Initialize ==
    \E ca \in 0..MaxCountArg, cb \in 0..MaxCountArg :
        LET err == InitializeErr(escrow, ca, cb) IN
        /\ hist.inits < MaxInits
        /\ hist.inits > 0 => (ca <= ReinitMaxCount /\ cb <= ReinitMaxCount)
        /\ IF err = "Ok"
             THEN /\ last' = Call("initialize", PartyA, FALSE, 0)
                  /\ escrow' = InitializedEscrow(PartyA, PartyB, ca, cb,
                                                 RemainingAccounts(ca, cb), now)
                  /\ hist' = [inits |-> hist.inits + 1, a_count |-> ca,
                              b_count |-> cb, released |-> {}, completes |-> 0,
                              dissolved |-> FALSE]
             ELSE UNCHANGED <<escrow, hist, last>>
        /\ UNCHANGED <<holder, now>>

----------------------------------------------------------------------------
(* deposit *)

AllDeposited_SkipsLast(flags, count) ==
    \A i \in Slots : i < count - 1 => flags[i]

\* "Check if all initializer NFTs have been deposited", and the same for the taker
AllDeposited(flags, count) == \A i \in Slots : i < count => flags[i]

SideDeposited_Never(e, is_initializer) == FALSE

\* the depositing party has already deposited all its NFTs
SideDeposited(e, is_initializer) ==
    IF is_initializer THEN e.initializer_deposited ELSE e.taker_deposited

DepositErr(e, h, depositor, is_initializer, nft_index, mint, token_account) ==
    LET count == IF is_initializer THEN e.initializer_nft_count
                                   ELSE e.taker_nft_count
        side_deposited == SideDeposited(e, is_initializer)
        expected_mint == IF is_initializer
                           THEN e.initializer_nft_mints[nft_index]
                           ELSE e.taker_nft_mints[nft_index]
        slot_deposited == IF is_initializer
                            THEN e.initializer_nft_deposited[nft_index]
                            ELSE e.taker_nft_deposited[nft_index]
    IN
    \* Deposit accounts constraints
    IF ~e.is_initialized THEN "EscrowNotInitialized"
    ELSE IF ~( (is_initializer /\ depositor = e.initializer)
               \/ (~is_initializer /\ depositor = e.taker) )
        THEN "InvalidDepositor"
    ELSE IF token_account.owner # depositor THEN "InvalidTokenAccount"
    ELSE IF token_account.mint # mint THEN "InvalidNftMint"
    \* handler (the vault is the associated account of (mint, escrow))
    ELSE IF side_deposited THEN "AlreadyDeposited"
    ELSE IF ~(nft_index < count) THEN "InvalidNftIndex"
    ELSE IF token_account.mint # expected_mint THEN "InvalidNftMint"
    ELSE IF TokenAmount(h, token_account) # 1 THEN "InvalidTokenAmount"
    ELSE IF mint # expected_mint THEN "InvalidNftMint"
    ELSE IF slot_deposited THEN "NftAlreadyDeposited"
    ELSE "Ok"

DepositEffect_NextSlot(e, is_initializer, nft_index) ==
    LET slot == IF nft_index + 1 < ArrayLen THEN nft_index + 1 ELSE nft_index
    IN IF is_initializer
         THEN [e EXCEPT !.initializer_nft_deposited[slot] = TRUE]
         ELSE [e EXCEPT !.taker_nft_deposited[slot] = TRUE]

\* "Mark this NFT as deposited" and set the party's flag when all are
DepositEffect(e, is_initializer, nft_index) ==
    IF is_initializer
      THEN LET flags == [e.initializer_nft_deposited EXCEPT ![nft_index] = TRUE]
           IN [e EXCEPT !.initializer_nft_deposited = flags,
                        !.initializer_deposited =
                            IF AllDeposited(flags, e.initializer_nft_count)
                              THEN TRUE ELSE e.initializer_deposited]
      ELSE LET flags == [e.taker_nft_deposited EXCEPT ![nft_index] = TRUE]
           IN [e EXCEPT !.taker_nft_deposited = flags,
                        !.taker_deposited =
                            IF AllDeposited(flags, e.taker_nft_count)
                              THEN TRUE ELSE e.taker_deposited]

Transfer_Dropped(h, from, to_owner) == h

\* token::transfer of one unit of the account's mint to a new owner
Transfer(h, from, to_owner) == [h EXCEPT ![from.mint] = to_owner]

\* the deposit calls the model tries: for every side and index the call of
\* the rightful party with its own token account of the slot's mint, and the
\* same call with one argument changed
DepositCalls ==
    UNION { LET party == IF side THEN PartyA ELSE PartyB
                m == SideMint(side, idx)
                call(d, mt, o, tm) ==
                    [depositor |-> d, is_initializer |-> side, nft_index |-> idx,
                     mint |-> mt, token_account |-> [owner |-> o, mint |-> tm]]
            IN {call(d, m, d, m) : d \in Keys}
               \cup {call(party, m, OtherKey(party), m),
                     call(party, m, party, OtherMint(m)),
                     call(party, SideMint(~side, idx), party, SideMint(~side, idx))}
          : side \in BOOLEAN, idx \in 0..MaxIndexArg }

Deposit ==
    \E c \in DepositCalls :
        LET err == DepositErr(escrow, holder, c.depositor, c.is_initializer,
                              c.nft_index, c.mint, c.token_account) IN
        /\ IF err = "Ok"
             THEN /\ last' = Call("deposit", c.depositor, c.is_initializer,
                                  c.nft_index)
                  /\ holder' = Transfer(holder, c.token_account, EscrowPda)
                  /\ escrow' = DepositEffect(escrow, c.is_initializer, c.nft_index)
             ELSE UNCHANGED <<escrow, holder, last>>
        /\ UNCHANGED <<now, hist>>

----------------------------------------------------------------------------
(* complete *)

\* variant: only the initializer's flag is looked at
DepositsComplete_InitializerOnly(e) == e.initializer_deposited

\* both parties have deposited all their NFTs
DepositsComplete(e) == e.initializer_deposited /\ e.taker_deposited

\* is_initializer = TRUE collects a taker NFT for the initializer,
\* is_initializer = FALSE collects an initializer NFT for the taker
RecipientExpectedOwner(e, is_initializer) ==
    IF is_initializer THEN e.initializer ELSE e.taker

\* variant: the loops run over 0..=count
AllCollected_Inclusive(flags, count) == \A i \in Slots : i <= count => flags[i]

\* the loops over 0..count that look for an uncollected NFT
AllCollected(flags, count) == \A i \in Slots : i < count => flags[i]

\* collected.iter().filter(|&&x| x).count()
CollectedCount(flags) == Cardinality({i \in Slots : flags[i]})

\* variant: one party's NFTs all collected is enough to close
CloseCondition_Either(all_initializer_nfts_collected, all_taker_nfts_collected) ==
    all_initializer_nfts_collected \/ all_taker_nfts_collected

\* the condition under which complete closes the escrow account
CloseCondition(all_initializer_nfts_collected, all_taker_nfts_collected) ==
    all_initializer_nfts_collected /\ all_taker_nfts_collected

\* variant: the lamports are moved but the data is left as it is
CloseEscrow_KeepsData(e) == e

\* close_escrow: lamports to the initializer, account data zero-filled
CloseEscrow(e) == ZeroEscrow

CollectableCount_OwnCount(e, is_initializer) ==
    IF is_initializer THEN e.initializer_nft_count ELSE e.taker_nft_count

\* the count the index of a complete call is checked against: the taker's
\* when the initializer collects, the initializer's when the taker collects
CollectableCount(e, is_initializer) ==
    IF is_initializer THEN e.taker_nft_count ELSE e.initializer_nft_count

SlotCollected_OwnArray(e, is_initializer, nft_index) ==
    IF is_initializer THEN e.initializer_nft_collected[nft_index]
                      ELSE e.taker_nft_collected[nft_index]

\* "Check if this NFT has already been collected"
SlotCollected(e, is_initializer, nft_index) ==
    IF is_initializer THEN e.taker_nft_collected[nft_index]
                      ELSE e.initializer_nft_collected[nft_index]

CompleteErr(e, h, caller, is_initializer, nft_index, mint, vault_account, recipient_token_account) ==
    LET count == CollectableCount(e, is_initializer)
        expected_mint == IF is_initializer
                           THEN e.taker_nft_mints[nft_index]
                           ELSE e.initializer_nft_mints[nft_index]
        slot_collected == SlotCollected(e, is_initializer, nft_index)
    IN
    \* Complete accounts constraints
    IF ~e.is_initialized THEN "EscrowNotInitialized"
    ELSE IF ~(caller = e.initializer \/ caller = e.taker) THEN "InvalidCaller"
    ELSE IF ~DepositsComplete(e) THEN "DepositsIncomplete"
    ELSE IF vault_account.mint # mint THEN "InvalidNftMint"
    \* recipient_token_account: associated_token::mint = mint, authority = caller
    ELSE IF recipient_token_account.mint # mint THEN "ConstraintTokenMint"
    ELSE IF recipient_token_account.owner # caller THEN "ConstraintTokenOwner"
    \* handler
    ELSE IF ~(nft_index < count) THEN "InvalidNftIndex"
    ELSE IF mint # expected_mint THEN "InvalidNftMint"
    ELSE IF vault_account.mint # expected_mint THEN "InvalidNftMint"
    ELSE IF recipient_token_account.mint # expected_mint THEN "InvalidNftMint"
    ELSE IF slot_collected THEN "NftAlreadyCollected"
    ELSE IF recipient_token_account.owner # RecipientExpectedOwner(e, is_initializer)
        THEN "InvalidRecipient"
    \* token::transfer signed by the escrow: the source must be the escrow's
    \* own vault and must hold the NFT
    ELSE IF vault_account.owner # EscrowPda \/ TokenAmount(h, vault_account) < 1
        THEN "TokenTransferFailed"
    ELSE "Ok"

MarkCollected_Overwrites(e, is_initializer, nft_index) ==
    IF is_initializer
      THEN [e EXCEPT !.taker_nft_collected = [NoFlags EXCEPT ![nft_index] = TRUE]]
      ELSE [e EXCEPT !.initializer_nft_collected = [NoFlags EXCEPT ![nft_index] = TRUE]]

\* "Mark this NFT as collected"
MarkCollected(e, is_initializer, nft_index) ==
    IF is_initializer
      THEN [e EXCEPT !.taker_nft_collected[nft_index] = TRUE]
      ELSE [e EXCEPT !.initializer_nft_collected[nft_index] = TRUE]

\* whether this complete takes the branch that calls close_escrow
CompleteCloses(e, is_initializer, nft_index) ==
    LET marked == MarkCollected(e, is_initializer, nft_index)
    IN CloseCondition(
         AllCollected(marked.initializer_nft_collected, marked.initializer_nft_count),
         AllCollected(marked.taker_nft_collected, marked.taker_nft_count))

CompleteEffect_CountsDown(e, is_initializer, nft_index) ==
    LET marked == MarkCollected(e, is_initializer, nft_index) IN
    IF CompleteCloses(e, is_initializer, nft_index)
      THEN CloseEscrow(marked)
      ELSE [marked EXCEPT
              !.initializer_nft_count = IF is_initializer THEN @ ELSE @ - 1,
              !.taker_nft_count = IF is_initializer THEN @ - 1 ELSE @]

\* the writes of complete to the record: the collected flag of the slot, and
\* then either close_escrow or the party-level collected flags
CompleteEffect(e, is_initializer, nft_index) ==
    LET marked == MarkCollected(e, is_initializer, nft_index)
        initializer_remaining ==
            marked.initializer_nft_count - CollectedCount(marked.initializer_nft_collected)
        taker_remaining ==
            marked.taker_nft_count - CollectedCount(marked.taker_nft_collected)
    IN
    IF CompleteCloses(e, is_initializer, nft_index)
      THEN CloseEscrow(marked)
      ELSE [marked EXCEPT
              !.initializer_collected =
                  IF initializer_remaining = 0 THEN TRUE ELSE marked.initializer_collected,
              !.taker_collected =
                  IF taker_remaining = 0 THEN TRUE ELSE marked.taker_collected]

\* the calls of complete the model tries
CompleteStep(caller, is_initializer, nft_index, mint, vault_account, recipient_token_account) ==
    LET err == CompleteErr(escrow, holder, caller, is_initializer, nft_index,
                           mint, vault_account, recipient_token_account) IN
    /\ IF err = "Ok"
         THEN /\ last' = Call("complete", caller, is_initializer, nft_index)
              /\ holder' = Transfer(holder, vault_account,
                                    recipient_token_account.owner)
              /\ escrow' = CompleteEffect(escrow, is_initializer, nft_index)
              /\ hist' = [hist EXCEPT
                            !.released = @ \cup {mint},
                            !.completes = @ + 1,
                            !.dissolved =
                                CompleteCloses(escrow, is_initializer, nft_index)]
         ELSE UNCHANGED <<escrow, holder, hist, last>>
    /\ UNCHANGED now

\* the complete calls the model tries: for every side and index, every
\* caller with every owner of the recipient account, on the escrow's vault of
\* the slot's mint; and the collecting party's own call with one account changed
CompleteCalls ==
    UNION { LET collector == IF side THEN PartyA ELSE PartyB
                m == SideMint(~side, idx)
                call(c, mt, vo, vm, ro, rm) ==
                    [caller |-> c, is_initializer |-> side, nft_index |-> idx,
                     mint |-> mt,
                     vault_account |-> [owner |-> vo, mint |-> vm],
                     recipient_token_account |-> [owner |-> ro, mint |-> rm]]
            IN {call(c, m, EscrowPda, m, ro, m) : c \in Keys, ro \in Keys}
               \cup {call(collector, SideMint(side, idx), EscrowPda,
                          SideMint(side, idx), collector, SideMint(side, idx)),
                     call(collector, m, collector, m, collector, m),
                     call(collector, m, EscrowPda, OtherMint(m), collector, m),
                     call(collector, m, EscrowPda, m, collector, OtherMint(m))}
          : side \in BOOLEAN, idx \in 0..MaxIndexArg }

Complete ==
    \E c \in CompleteCalls :
        CompleteStep(c.caller, c.is_initializer, c.nft_index, c.mint,
                     c.vault_account, c.recipient_token_account)

----------------------------------------------------------------------------
(* cancel *)

\* variant: the accounts struct has no constraint on the deposited flags
CancelConstraint_Absent(e) == TRUE

\* the constraint of the Cancel accounts on the two deposited flags
CancelConstraint(e) == ~e.initializer_deposited /\ ~e.taker_deposited

\* "Check if any NFTs have been deposited"
CanCancel(e) == ~e.initializer_deposited /\ ~e.taker_deposited

TimeoutExpired(e, current_time) ==
    current_time > e.created_at + e.timeout_in_seconds

CancelErr(e, initializer, current_time) ==
    \* Cancel accounts constraints
    IF ~e.is_initialized THEN "EscrowNotInitialized"
    ELSE IF initializer # e.initializer THEN "InvalidCanceller"
    ELSE IF ~CancelConstraint(e) THEN "CannotCancelAfterDeposit"
    \* handler
    ELSE IF ~(CanCancel(e) \/ TimeoutExpired(e, current_time))
        THEN "CannotCancelAfterDeposit"
    ELSE "Ok"

Cancel ==
    \E initializer \in Keys :
        LET err == CancelErr(escrow, initializer, now) IN
        /\ IF err = "Ok"
             THEN \* close = initializer
                  /\ last' = Call("cancel", initializer, FALSE, 0)
                  /\ escrow' = ZeroEscrow
                  /\ hist' = [hist EXCEPT !.dissolved = TRUE]
             ELSE UNCHANGED <<escrow, hist, last>>
        /\ UNCHANGED <<holder, now>>

----------------------------------------------------------------------------
(* The clock *)

\* Clock::get(): the clock never goes back
Tick ==
    /\ now + TickStep <= MaxNow
    /\ now' = now + TickStep
    /\ last' = Call("tick", NoKey, FALSE, 0)
    /\ UNCHANGED <<escrow, holder, hist>>

----------------------------------------------------------------------------

Init ==
    /\ escrow = ZeroEscrow
    /\ holder = [m \in Mints |->
                    IF \E i \in 1..3 : AssetsA[i] = m THEN PartyA ELSE PartyB]
    /\ now = 0
    /\ last = Call("none", NoKey, FALSE, 0)
    /\ hist = NoHist

Next == Initialize \/ Deposit \/ Complete \/ Cancel \/ Tick

Spec == Init /\ [][Next]_vars

\* the call by which the collecting party itself collects slot nft_index of
\* the other party: its own recipient account, the escrow's vault
CollectorCall(is_initializer, nft_index) ==
    LET collector == IF is_initializer THEN PartyA ELSE PartyB
        m == SideMint(~is_initializer, nft_index)
    IN [caller |-> collector, is_initializer |-> is_initializer,
        nft_index |-> nft_index, mint |-> m,
        vault_account |-> [owner |-> EscrowPda, mint |-> m],
        recipient_token_account |-> [owner |-> collector, mint |-> m]]

\* a party collects one of the slots it is owed
CompleteSuccess ==
    \E is_initializer \in BOOLEAN, nft_index \in Slots :
        LET c == CollectorCall(is_initializer, nft_index) IN
        /\ CompleteErr(escrow, holder, c.caller, c.is_initializer, c.nft_index,
                       c.mint, c.vault_account, c.recipient_token_account) = "Ok"
        /\ CompleteStep(c.caller, c.is_initializer, c.nft_index, c.mint,
                        c.vault_account, c.recipient_token_account)

\* the parties keep calling complete while some call of it can succeed
FairSpec == Init /\ [][Next]_vars /\ WF_vars(CompleteSuccess)

----------------------------------------------------------------------------
(* Vocabulary of the properties *)

Live == escrow.is_initialized

AnyCollected ==
    \E i \in Slots : escrow.initializer_nft_collected[i]
                     \/ escrow.taker_nft_collected[i]

AnySlotDeposited ==
    \E i \in Slots : escrow.initializer_nft_deposited[i]
                     \/ escrow.taker_nft_deposited[i]

BeforeTimeout == now <= escrow.created_at + escrow.timeout_in_seconds

\* the step is a successful call of the instruction
InitializeSucceeds == last' # last /\ last'.op = "initialize"
DepositSucceeds == last' # last /\ last'.op = "deposit"
CompleteSucceeds == last' # last /\ last'.op = "complete"
CancelSucceeds == last' # last /\ last'.op = "cancel"

\* the party an NFT of the given side is released to
Counterparty(side_is_initializer) ==
    IF side_is_initializer THEN PartyB ELSE PartyA

\* the number of NFTs the party declared in the latest record
DeclaredCount(side_is_initializer) ==
    IF side_is_initializer THEN hist.a_count ELSE hist.b_count

\* the mints the party declared in the latest record
Declared(side_is_initializer) ==
    {SideMint(side_is_initializer, i) :
        i \in {j \in Slots : j < DeclaredCount(side_is_initializer)}}

\* the collecting party's own complete call for slot idx of the other party
\* succeeds now
CanStillComplete(collector_is_initializer, idx) ==
    LET c == CollectorCall(collector_is_initializer, idx) IN
    CompleteErr(escrow, holder, c.caller, c.is_initializer, c.nft_index,
                c.mint, c.vault_account, c.recipient_token_account) = "Ok"

\* slot idx of the party the collector collects from is declared and uncollected
OpenSlot(collector_is_initializer, idx) ==
    /\ idx < (IF collector_is_initializer THEN escrow.taker_nft_count
                                          ELSE escrow.initializer_nft_count)
    /\ ~(IF collector_is_initializer THEN escrow.taker_nft_collected[idx]
                                     ELSE escrow.initializer_nft_collected[idx])

----------------------------------------------------------------------------
(* No release before full mutual commitment *)

\* C1: a complete call succeeds only from a state in which both
\* initializer_deposited and taker_deposited are true, and in every live state
\* with some collected flag set both parties are fully deposited.
C1_CompleteNeedsBothDeposited ==
    /\ [](Live /\ AnyCollected
            => escrow.initializer_deposited /\ escrow.taker_deposited)
    /\ [][CompleteSucceeds
            => escrow.initializer_deposited /\ escrow.taker_deposited]_vars

C1_Witness ==
    /\ Live /\ AnyCollected
    /\ last.op = "complete"

----------------------------------------------------------------------------
(* No unilateral defection *)

\* C2: once an NFT of one party has been released to the other, every NFT the
\* other party declared is already released to its counterparty or is in the
\* escrow's custody under a live record on which complete for its slot can
\* still succeed; and no cancel succeeds from a state with a collected slot,
\* whatever the clock reads.
C2_NoUnilateralDefection ==
    /\ [](\A side \in BOOLEAN :
            (\E m \in Declared(side) :
                m \in hist.released /\ holder[m] = Counterparty(side))
            => \A j \in Slots :
                 j < DeclaredCount(~side)
                 => LET m2 == SideMint(~side, j) IN
                    \/ m2 \in hist.released /\ holder[m2] = Counterparty(~side)
                    \/ /\ holder[m2] = EscrowPda
                       /\ Live
                       /\ CanStillComplete(side, j))
    /\ []((Live /\ AnyCollected)
            => \A k \in Keys : CancelErr(escrow, k, now) # "Ok")
    /\ [][(Live /\ AnyCollected) => ~CancelSucceeds]_vars

C2_Witness ==
    /\ Live /\ AnyCollected
    /\ \E m \in Mints : holder[m] = EscrowPda
    /\ ~BeforeTimeout
    /\ CancelErr(escrow, escrow.initializer, now) = "CannotCancelAfterDeposit"

----------------------------------------------------------------------------
(* cancel and the timeout *)

\* C3: before the timeout has elapsed, a cancel by party A on a record with at
\* least one deposited slot (also when no party is fully deposited) is
\* rejected with CannotCancelAfterDeposit and the record stays live.
C3_CancelBlockedByAnyDeposit ==
    /\ [][(Live /\ BeforeTimeout /\ AnySlotDeposited) => ~CancelSucceeds]_vars
    /\ []((Live /\ BeforeTimeout /\ AnySlotDeposited)
            => CancelErr(escrow, escrow.initializer, now)
                 = "CannotCancelAfterDeposit")

\* C4: once the timeout has elapsed, a cancel by party A on a live record
\* succeeds, whatever the deposit state.
C4_CancelSucceedsAfterTimeout ==
    (Live /\ ~BeforeTimeout) => CancelErr(escrow, escrow.initializer, now) = "Ok"

\* C5: no NFT is in the escrow's custody while the record is dissolved.
C5_NoAssetInDissolvedEscrow ==
    (hist.dissolved /\ ~Live) => \A m \in Mints : holder[m] # EscrowPda

----------------------------------------------------------------------------
(* Who may drive completion *)

\* C6: on a live record with both parties fully deposited, for every
\* uncollected declared slot a complete call naming the counterparty's
\* account as recipient succeeds, whether party A or party B is the caller.
C6_EitherPartyMayComplete ==
    (Live /\ DepositsComplete(escrow))
    => \A collector \in BOOLEAN, idx \in Slots, caller \in {PartyA, PartyB} :
         OpenSlot(collector, idx)
         => LET m == SideMint(~collector, idx) IN
            CompleteErr(escrow, holder, caller, collector, idx, m,
                        [owner |-> EscrowPda, mint |-> m],
                        [owner |-> Counterparty(~collector), mint |-> m]) = "Ok"

----------------------------------------------------------------------------
(* Dissolution by complete *)

\* C7: a successful complete dissolves the record iff, once its slot is marked,
\* every declared slot of both parties is collected; otherwise the record stays
\* live and differs from the record before the call only in that slot's
\* collected flag and in the per-party collected flags, each of which is set
\* when all of that party's declared slots are collected.
C7_DissolvesIffAllCollected ==
    [][ CompleteSucceeds =>
        LET side == last'.is_initializer
            idx == last'.nft_index
            ic == IF side THEN escrow.initializer_nft_collected
                  ELSE [escrow.initializer_nft_collected EXCEPT ![idx] = TRUE]
            tc == IF side THEN [escrow.taker_nft_collected EXCEPT ![idx] = TRUE]
                  ELSE escrow.taker_nft_collected
            allA == \A i \in Slots : i < escrow.initializer_nft_count => ic[i]
            allB == \A i \in Slots : i < escrow.taker_nft_count => tc[i]
        IN /\ Live
           /\ ~escrow'.is_initialized <=> (allA /\ allB)
           /\ ~(allA /\ allB) =>
                escrow' = [escrow EXCEPT
                             !.initializer_nft_collected = ic,
                             !.taker_nft_collected = tc,
                             !.initializer_collected = @ \/ allA,
                             !.taker_collected = @ \/ allB] ]_vars

C7_Witness ==
    /\ Live
    /\ last.op = "complete"
    /\ escrow.initializer_collected
    /\ ~escrow.taker_collected

----------------------------------------------------------------------------
(* Unwinding terminates *)

\* C8: on a live record with both parties fully deposited, complete is
\* possible for every declared slot that is not yet collected, and under weak
\* fairness of the successful complete calls the record is eventually
\* dissolved, after exactly a_count + b_count successful completes.
C8_UnwindingTerminates ==
    /\ []((Live /\ DepositsComplete(escrow))
            => \A collector \in BOOLEAN, idx \in Slots :
                 OpenSlot(collector, idx) => CanStillComplete(collector, idx))
    /\ (Live /\ DepositsComplete(escrow))
         ~> ( /\ ~Live /\ hist.dissolved
              /\ last.op = "complete"
              /\ hist.completes = hist.a_count + hist.b_count )

C8_Witness ==
    /\ ~Live /\ hist.dissolved
    /\ hist.a_count = 2 /\ hist.b_count = 1
    /\ hist.completes = 3
    /\ last.op = "complete"

----------------------------------------------------------------------------
(* A dissolved record *)

\* C9: after the record has been dissolved, by the last complete or by cancel,
\* every deposit, complete and cancel fails with EscrowNotInitialized and
\* moves no NFT.
C9_DissolvedRejectsEverything ==
    /\ [](hist.dissolved =>
            /\ \A c \in DepositCalls :
                 DepositErr(escrow, holder, c.depositor, c.is_initializer,
                            c.nft_index, c.mint, c.token_account)
                   = "EscrowNotInitialized"
            /\ \A c \in CompleteCalls :
                 CompleteErr(escrow, holder, c.caller, c.is_initializer,
                             c.nft_index, c.mint, c.vault_account,
                             c.recipient_token_account)
                   = "EscrowNotInitialized"
            /\ \A k \in Keys :
                 CancelErr(escrow, k, now) = "EscrowNotInitialized")
    /\ [][ hist.dissolved
           => ( /\ ~(DepositSucceeds \/ CompleteSucceeds \/ CancelSucceeds)
                /\ holder' = holder ) ]_vars

C9_Witness ==
    /\ hist.dissolved /\ ~Live
    /\ last.op = "complete"
    /\ hist.completes = hist.a_count + hist.b_count
    /\ CompleteErr(escrow, holder, last.who, last.is_initializer, last.nft_index,
                   SideMint(~last.is_initializer, last.nft_index),
                   [owner |-> EscrowPda,
                    mint |-> SideMint(~last.is_initializer, last.nft_index)],
                   [owner |-> last.who,
                    mint |-> SideMint(~last.is_initializer, last.nft_index)])
         = "EscrowNotInitialized"

----------------------------------------------------------------------------
(* Direction of release *)

\* C10: every successful complete moves the NFT of its slot from the escrow's
\* custody to the party other than the one that declared it, and a complete
\* that is valid but for a recipient account owned by any other identity is
\* rejected with InvalidRecipient.
C10_FlowsToCounterparty ==
    /\ [][ CompleteSucceeds =>
           LET collector == last'.is_initializer
               m == SideMint(~collector, last'.nft_index)
           IN /\ holder[m] = EscrowPda
              /\ holder' = [holder EXCEPT ![m] = Counterparty(~collector)] ]_vars
    /\ []( (Live /\ DepositsComplete(escrow))
           => \A collector \in BOOLEAN, idx \in Slots,
                 caller \in {PartyA, PartyB}, ro \in Keys :
                (OpenSlot(collector, idx) /\ ro # Counterparty(~collector))
                => LET m == SideMint(~collector, idx) IN
                   CompleteErr(escrow, holder, caller, collector, idx, m,
                               [owner |-> EscrowPda, mint |-> m],
                               [owner |-> ro, mint |-> m]) = "InvalidRecipient" )

----------------------------------------------------------------------------
(* Double collection and double deposit *)

\* C11: during the life of a record at most one complete succeeds for a
\* (party, slot): a successful complete finds the slot's collected flag false
\* and its NFT not yet released by this record, and leaves the flag true
\* unless it dissolves the record; while the flag is true no complete for the
\* slot succeeds and the collector's own call is rejected with
\* NftAlreadyCollected.
C11_NoDoubleCollection ==
    /\ [][ CompleteSucceeds =>
           LET collector == last'.is_initializer
               idx == last'.nft_index
           IN /\ ~SlotCollected(escrow, collector, idx)
              /\ SideMint(~collector, idx) \notin hist.released
              /\ SideMint(~collector, idx) \in hist'.released
              /\ escrow'.is_initialized
                   => SlotCollected(escrow', collector, idx) ]_vars
    /\ [](Live =>
            \A collector \in BOOLEAN, idx \in Slots :
              (idx < CollectableCount(escrow, collector)
               /\ SlotCollected(escrow, collector, idx))
              => /\ \A c \in CompleteCalls :
                      (c.is_initializer = collector /\ c.nft_index = idx)
                      => CompleteErr(escrow, holder, c.caller, c.is_initializer,
                                     c.nft_index, c.mint, c.vault_account,
                                     c.recipient_token_account) # "Ok"
                 /\ LET c == CollectorCall(collector, idx) IN
                    CompleteErr(escrow, holder, c.caller, c.is_initializer,
                                c.nft_index, c.mint, c.vault_account,
                                c.recipient_token_account)
                      = "NftAlreadyCollected")

C11_Witness ==
    /\ Live /\ last.op = "complete"
    /\ SlotCollected(escrow, last.is_initializer, last.nft_index)
    /\ SideMint(~last.is_initializer, last.nft_index) \in hist.released
    /\ LET c == CollectorCall(last.is_initializer, last.nft_index) IN
       CompleteErr(escrow, holder, c.caller, c.is_initializer, c.nft_index,
                   c.mint, c.vault_account, c.recipient_token_account)
         = "NftAlreadyCollected"

\* the deposited flag of slot idx of the party in record e
DepositedFlag(e, side_is_initializer, idx) ==
    IF side_is_initializer THEN e.initializer_nft_deposited[idx]
                           ELSE e.taker_nft_deposited[idx]

SlotDeposited(side_is_initializer, idx) ==
    DepositedFlag(escrow, side_is_initializer, idx)

\* the answer to the party's own deposit call for its slot idx, made with its
\* own token account of the declared mint
OwnDepositErr(side_is_initializer, idx) ==
    LET party == Counterparty(~side_is_initializer)
        m == SideMint(side_is_initializer, idx)
    IN DepositErr(escrow, holder, party, side_is_initializer, idx, m,
                  [owner |-> party, mint |-> m])

\* C12 as stated: a second deposit of a slot that has been deposited is
\* rejected with NftAlreadyDeposited and the slot's flag remains true.
C12_SecondDepositNftAlreadyDeposited ==
    /\ [](Live =>
            \A side \in BOOLEAN, idx \in Slots :
              (idx < DeclaredCount(side) /\ SlotDeposited(side, idx))
              => OwnDepositErr(side, idx) = "NftAlreadyDeposited")
    /\ [][ DepositSucceeds
           => ~SlotDeposited(last'.is_initializer, last'.nft_index) ]_vars

\* C12 (amended): a second deposit of a slot that has been deposited is
\* rejected and the slot's flag remains true; the error is AlreadyDeposited
\* when the party has deposited all its NFTs, otherwise InvalidTokenAmount
\* when the depositor's token account does not hold exactly one unit (the
\* NFT has left it), and NftAlreadyDeposited only otherwise.
C12_SecondDepositRejected ==
    /\ [](Live =>
            \A side \in BOOLEAN, idx \in Slots :
              (idx < DeclaredCount(side) /\ SlotDeposited(side, idx))
              => LET party == Counterparty(~side)
                     fully == IF side THEN escrow.initializer_deposited
                                      ELSE escrow.taker_deposited
                     amount == TokenAmount(holder,
                                 [owner |-> party, mint |-> SideMint(side, idx)])
                 IN OwnDepositErr(side, idx) =
                      IF fully THEN "AlreadyDeposited"
                      ELSE IF amount # 1 THEN "InvalidTokenAmount"
                      ELSE "NftAlreadyDeposited")
    /\ [][ DepositSucceeds
           => /\ ~SlotDeposited(last'.is_initializer, last'.nft_index)
              /\ DepositedFlag(escrow', last'.is_initializer,
                               last'.nft_index) ]_vars

C12_Witness ==
    /\ Live /\ last.op = "deposit"
    /\ SlotDeposited(last.is_initializer, last.nft_index)
    /\ ~(IF last.is_initializer THEN escrow.initializer_deposited
                                ELSE escrow.taker_deposited)
    /\ OwnDepositErr(last.is_initializer, last.nft_index) = "InvalidTokenAmount"

----------------------------------------------------------------------------
(* The flags of a record *)

\* C13: in no step from a live record to a live record does a slot's
\* deposited flag or a slot's collected flag change from true to false (the
\* step that dissolves the record destroys the record, flags included).
C13_FlagsMonotone ==
    [][ (escrow.is_initialized /\ escrow'.is_initialized)
        => \A i \in Slots :
             /\ escrow.initializer_nft_deposited[i]
                  => escrow'.initializer_nft_deposited[i]
             /\ escrow.taker_nft_deposited[i]
                  => escrow'.taker_nft_deposited[i]
             /\ escrow.initializer_nft_collected[i]
                  => escrow'.initializer_nft_collected[i]
             /\ escrow.taker_nft_collected[i]
                  => escrow'.taker_nft_collected[i] ]_vars

\* a complete has succeeded on a record that already had a collected flag
\* set, and both collected flags and all deposited flags are still set
C13_Witness ==
    /\ Live /\ last.op = "complete"
    /\ hist.completes >= 2
    /\ CollectedCount(escrow.initializer_nft_collected)
         + CollectedCount(escrow.taker_nft_collected) = hist.completes
    /\ \A i \in Slots :
         /\ i < escrow.initializer_nft_count => escrow.initializer_nft_deposited[i]
         /\ i < escrow.taker_nft_count => escrow.taker_nft_deposited[i]

----------------------------------------------------------------------------
(* Slot indices *)

\* the count declared by the party in the record
SideCount(side_is_initializer) ==
    IF side_is_initializer THEN escrow.initializer_nft_count
                           ELSE escrow.taker_nft_count

\* the answer to the collecting party's own complete call for slot idx of the
\* other party
CollectorErr(collector_is_initializer, idx) ==
    LET c == CollectorCall(collector_is_initializer, idx) IN
    CompleteErr(escrow, holder, c.caller, c.is_initializer, c.nft_index,
                c.mint, c.vault_account, c.recipient_token_account)

\* C14 as stated: in a live record a deposit or complete whose index is at
\* least the declared count of the party whose slots it addresses is rejected
\* with InvalidNftIndex, whatever the state of the record.
C14_IndexErrorAlways ==
    Live => \A side \in BOOLEAN, idx \in 0..MaxIndexArg :
              idx >= SideCount(side)
              => /\ OwnDepositErr(side, idx) = "InvalidNftIndex"
                 /\ CollectorErr(~side, idx) = "InvalidNftIndex"

\* C14 (amended): in a live record no deposit and no complete whose index is
\* at least the declared count of the party whose slots it addresses
\* succeeds; the party's own deposit is rejected with AlreadyDeposited when
\* it has deposited all its NFTs and with InvalidNftIndex otherwise, and the
\* collector's complete is rejected with DepositsIncomplete until both
\* parties have deposited all their NFTs and with InvalidNftIndex afterwards.
\* No call with an index below the count is rejected with InvalidNftIndex,
\* and the deposit of an undeposited slot below the count whose NFT the
\* party holds succeeds.
C14_IndexBeyondCountRejected ==
    Live =>
      \A side \in BOOLEAN, idx \in 0..MaxIndexArg :
        LET fully == IF side THEN escrow.initializer_deposited
                             ELSE escrow.taker_deposited
            both == escrow.initializer_deposited /\ escrow.taker_deposited
            depositErrs ==
                {DepositErr(escrow, holder, c.depositor, c.is_initializer,
                            c.nft_index, c.mint, c.token_account) :
                   c \in {d \in DepositCalls :
                            d.is_initializer = side /\ d.nft_index = idx}}
            completeErrs ==
                {CompleteErr(escrow, holder, c.caller, c.is_initializer,
                             c.nft_index, c.mint, c.vault_account,
                             c.recipient_token_account) :
                   c \in {d \in CompleteCalls :
                            d.is_initializer = ~side /\ d.nft_index = idx}}
        IN IF idx >= SideCount(side)
             THEN /\ "Ok" \notin depositErrs \cup completeErrs
                  /\ OwnDepositErr(side, idx) =
                       IF fully THEN "AlreadyDeposited" ELSE "InvalidNftIndex"
                  /\ CollectorErr(~side, idx) =
                       IF both THEN "InvalidNftIndex" ELSE "DepositsIncomplete"
             ELSE /\ "InvalidNftIndex" \notin depositErrs \cup completeErrs
                  /\ ( ~fully /\ ~SlotDeposited(side, idx)
                       /\ holder[SideMint(side, idx)] = Counterparty(~side) )
                     => OwnDepositErr(side, idx) = "Ok"

\* both parties have deposited everything, and for a slot that exists in the
\* arrays but was not declared the collector's complete is answered with
\* InvalidNftIndex and the party's deposit with AlreadyDeposited
C14_Witness ==
    /\ Live /\ last.op = "deposit"
    /\ escrow.initializer_deposited /\ escrow.taker_deposited
    /\ \E side \in BOOLEAN, idx \in Slots :
         /\ idx >= SideCount(side)
         /\ CollectorErr(~side, idx) = "InvalidNftIndex"
         /\ OwnDepositErr(side, idx) = "AlreadyDeposited"
         /\ idx - 1 >= 0 /\ SlotDeposited(side, idx - 1)

----------------------------------------------------------------------------
(* Atomicity *)

\* C15: the record and the custody of the NFTs change only in a step of a
\* call that passes all its checks, and such a step applies the whole effect
\* of the call: initialize and cancel move no NFT; a deposit moves exactly
\* the NFT of its slot from the depositor to the escrow and sets the slot's
\* deposited flag, which was false; a complete moves exactly the NFT of its
\* slot out of the escrow and sets the slot's collected flag, which was
\* false, or dissolves the record.  A call that fails a check changes
\* neither.
C15_AllOrNothing ==
    [][ (escrow' # escrow \/ holder' # holder) =>
        LET side == last'.is_initializer
            idx == last'.nft_index
            who == last'.who
        IN
        \/ /\ InitializeSucceeds
           /\ \E ca, cb \in 0..MaxCountArg : InitializeErr(escrow, ca, cb) = "Ok"
           /\ holder' = holder
           /\ escrow'.is_initialized
        \/ /\ CancelSucceeds
           /\ CancelErr(escrow, who, now) = "Ok"
           /\ holder' = holder
           /\ ~escrow'.is_initialized
        \/ /\ DepositSucceeds
           /\ LET m == SideMint(side, idx) IN
              /\ DepositErr(escrow, holder, who, side, idx, m,
                            [owner |-> who, mint |-> m]) = "Ok"
              /\ holder[m] = who
              /\ holder' = [holder EXCEPT ![m] = EscrowPda]
              /\ ~DepositedFlag(escrow, side, idx)
              /\ DepositedFlag(escrow', side, idx)
        \/ /\ CompleteSucceeds
           /\ LET m == SideMint(~side, idx) IN
              /\ CollectorErr(side, idx) = "Ok"
              /\ holder[m] = EscrowPda
              /\ holder' = [holder EXCEPT ![m] = who]
              /\ ~SlotCollected(escrow, side, idx)
              /\ \/ ~escrow'.is_initialized
                 \/ SlotCollected(escrow', side, idx) ]_vars

\* a deposit has moved its NFT into the escrow and set its flag, and the
\* same call made again is rejected
C15_Witness ==
    /\ Live /\ last.op = "deposit"
    /\ holder[SideMint(last.is_initializer, last.nft_index)] = EscrowPda
    /\ SlotDeposited(last.is_initializer, last.nft_index)
    /\ OwnDepositErr(last.is_initializer, last.nft_index) # "Ok"
    /\ CollectorErr(~last.is_initializer, last.nft_index) # "Ok"

----------------------------------------------------------------------------
(* Creation of a record *)

\* C16: where no record exists, initialize is rejected with InvalidNftCount
\* exactly when one of the two counts is 0 or greater than 3 and succeeds
\* otherwise; a record comes to exist only by a successful initialize, which
\* leaves every deposited and collected flag of every slot and the four
\* party-level flags false, is_initialized true, the timeout 86400 and the
\* counts as given; every live record has both counts in 1..3.
C16_InitializeValidatesCounts ==
    /\ [](~escrow.is_initialized =>
            \A ca, cb \in 0..MaxCountArg :
              InitializeErr(escrow, ca, cb) =
                IF ca = 0 \/ ca > 3 \/ cb = 0 \/ cb > 3
                  THEN "InvalidNftCount" ELSE "Ok")
    /\ [](escrow.is_initialized =>
            /\ 0 < escrow.initializer_nft_count /\ escrow.initializer_nft_count <= 3
            /\ 0 < escrow.taker_nft_count /\ escrow.taker_nft_count <= 3)
    /\ [][ (InitializeSucceeds \/ (~escrow.is_initialized /\ escrow'.is_initialized))
           => /\ InitializeSucceeds
              /\ ~escrow.is_initialized
              /\ escrow'.is_initialized
              /\ escrow'.timeout_in_seconds = 86400
              /\ escrow'.initializer_nft_count = hist'.a_count
              /\ escrow'.taker_nft_count = hist'.b_count
              /\ ~escrow'.initializer_deposited /\ ~escrow'.taker_deposited
              /\ ~escrow'.initializer_collected /\ ~escrow'.taker_collected
              /\ \A i \in Slots :
                   /\ ~escrow'.initializer_nft_deposited[i]
                   /\ ~escrow'.taker_nft_deposited[i]
                   /\ ~escrow'.initializer_nft_collected[i]
                   /\ ~escrow'.taker_nft_collected[i] ]_vars

\* a record just created with the largest and the smallest valid count
C16_Witness ==
    /\ Live /\ last.op = "initialize"
    /\ escrow.initializer_nft_count = 3 /\ escrow.taker_nft_count = 1
    /\ escrow.timeout_in_seconds = 86400
    /\ ~AnySlotDeposited /\ ~AnyCollected

----------------------------------------------------------------------------
(* The cached flags and the slots beyond the count *)

\* C17: in every live state the initializer_deposited flag is set exactly
\* when every declared slot of the initializer is deposited, and the
\* taker_deposited flag exactly when every declared slot of the taker is.
C17_CachedFlagIffAllSlots ==
    Live =>
      /\ escrow.initializer_deposited
           <=> (\A i \in Slots : i < escrow.initializer_nft_count
                                   => escrow.initializer_nft_deposited[i])
      /\ escrow.taker_deposited
           <=> (\A i \in Slots : i < escrow.taker_nft_count
                                   => escrow.taker_nft_deposited[i])

\* the deposit of a party's last slot has just set its flag while the other
\* party is partially deposited and has its flag unset
C17_Witness ==
    /\ Live /\ last.op = "deposit"
    /\ SideCount(last.is_initializer) >= 2
    /\ IF last.is_initializer THEN escrow.initializer_deposited
                              ELSE escrow.taker_deposited
    /\ ~(IF last.is_initializer THEN escrow.taker_deposited
                                ELSE escrow.initializer_deposited)
    /\ \E i \in Slots : SlotDeposited(~last.is_initializer, i)

\* C18: in every state, the deposited flag and the collected flag of every
\* slot of the arrays at or beyond the party's declared count are false, and
\* the number of true entries of a party's collected array is at most its
\* count.
C18_SlotsBeyondCountUntouched ==
    /\ \A i \in Slots :
         /\ i >= escrow.initializer_nft_count
              => /\ ~escrow.initializer_nft_deposited[i]
                 /\ ~escrow.initializer_nft_collected[i]
         /\ i >= escrow.taker_nft_count
              => /\ ~escrow.taker_nft_deposited[i]
                 /\ ~escrow.taker_nft_collected[i]
    /\ CollectedCount(escrow.initializer_nft_collected)
         <= escrow.initializer_nft_count
    /\ CollectedCount(escrow.taker_nft_collected) <= escrow.taker_nft_count

\* a record that declares fewer slots than the arrays hold, with every
\* declared slot of one party deposited and collected
C18_Witness ==
    /\ Live /\ last.op = "complete"
    /\ escrow.initializer_nft_count = 2 /\ escrow.taker_nft_count = 1
    /\ CollectedCount(escrow.initializer_nft_collected) = 2
    /\ ~escrow.initializer_nft_deposited[2] /\ ~escrow.taker_nft_deposited[1]

----------------------------------------------------------------------------
(* Custody *)

\* C19: in every state every NFT is held by party A, party B or the escrow;
\* while the record is live, the NFT of a declared slot is in the escrow
\* exactly when the slot is deposited and not collected, with the party that
\* declared it exactly when the slot is not deposited, and with the other
\* party exactly when the slot is collected.
C19_CustodyMatchesFlags ==
    /\ \A m \in Mints : holder[m] \in {PartyA, PartyB, EscrowPda}
    /\ Live =>
         \A side \in BOOLEAN, i \in Slots :
           i < SideCount(side)
           => LET h == holder[SideMint(side, i)]
                  deposited == SlotDeposited(side, i)
                  collected == SlotCollected(escrow, ~side, i)
              IN /\ (h = EscrowPda) <=> (deposited /\ ~collected)
                 /\ (h = Counterparty(~side)) <=> ~deposited
                 /\ (h = Counterparty(side)) <=> collected

----------------------------------------------------------------------------
(* The creation-time fields *)

\* the fields of the record that initialize writes and that describe the swap
CreationFields(e) ==
    <<e.initializer, e.taker, e.initializer_nft_count, e.taker_nft_count,
      e.initializer_nft_mints, e.taker_nft_mints, e.created_at,
      e.timeout_in_seconds>>

\* C20: every step that starts and ends with the record live, which is every
\* deposit and every complete that does not dissolve the record, successful
\* or rejected, leaves the two party identities, the two counts, the two
\* arrays of declared mints, created_at and timeout_in_seconds unchanged.
C20_CreationFieldsFrozen ==
    [][ (escrow.is_initialized /\ escrow'.is_initialized)
        => CreationFields(escrow') = CreationFields(escrow) ]_vars

\* a complete that has not dissolved the record, later than the creation,
\* with the fields as initialize wrote them
C20_Witness ==
    /\ Live /\ last.op = "complete"
    /\ now > escrow.created_at
    /\ escrow.initializer = PartyA /\ escrow.taker = PartyB
    /\ escrow.initializer_nft_count = hist.a_count
    /\ escrow.taker_nft_count = hist.b_count
    /\ hist.a_count + hist.b_count >= 3
    /\ \A i \in Slots :
         /\ i < hist.a_count => escrow.initializer_nft_mints[i] = SideMint(TRUE, i)
         /\ i < hist.b_count => escrow.taker_nft_mints[i] = SideMint(FALSE, i)
    /\ escrow.timeout_in_seconds = DefaultTimeout

----------------------------------------------------------------------------
(* One record per pair *)

\* C21: the pair has at most one live record: while its record is live
\* every initialize for the pair is rejected, by the `init` of the existing
\* account, and a successful initialize never starts from a live record;
\* once the record has been dissolved, initialize with valid counts succeeds
\* again, and the record it yields has every deposited and collected flag and
\* the four party-level flags false, whatever the flags of the dissolved
\* record were.
C21_OneLiveRecordPerPair ==
    /\ [](escrow.is_initialized =>
            \A ca, cb \in 0..MaxCountArg :
              InitializeErr(escrow, ca, cb) = "AccountAlreadyInUse")
    /\ []((hist.dissolved /\ ~escrow.is_initialized) =>
            \A ca, cb \in 1..MaxNftCount :
              InitializeErr(escrow, ca, cb) = "Ok")
    /\ [][ InitializeSucceeds
           => /\ ~escrow.is_initialized
              /\ hist.inits > 0 => hist.dissolved
              /\ escrow'.is_initialized
              /\ ~escrow'.initializer_deposited /\ ~escrow'.taker_deposited
              /\ ~escrow'.initializer_collected /\ ~escrow'.taker_collected
              /\ \A i \in Slots :
                   /\ ~escrow'.initializer_nft_deposited[i]
                   /\ ~escrow'.taker_nft_deposited[i]
                   /\ ~escrow'.initializer_nft_collected[i]
                   /\ ~escrow'.taker_nft_collected[i] ]_vars

\* the second record of the pair, just created with no flag set, after a
\* first record whose swap was carried out and which was then dissolved;
\* a further initialize is rejected
C21_Witness ==
    /\ Live /\ last.op = "initialize"
    /\ hist.inits = 2
    /\ holder[SideMint(TRUE, 0)] = PartyB /\ holder[SideMint(FALSE, 0)] = PartyA
    /\ ~AnySlotDeposited /\ ~AnyCollected
    /\ InitializeErr(escrow, 1, 1) = "AccountAlreadyInUse"

====
